---- MODULE Spec2Model ----
(***************************************************************************)
(* Model of the VLookup merge tool (src/components/VLookupTool.tsx) and of  *)
(* the duplicate finder tool (DuplicateFinderTool, src/components/         *)
(* Slider.tsx:53-340).                                                     *)
(*                                                                         *)
(* Strings are sequences of one-character tokens, so that the key          *)
(* normalisation, the numeric canonicalisation and the edit distance are   *)
(* computed character by character as the code computes them.  A sheet is  *)
(* a sequence of rows, a row a sequence of cells, a cell a string.         *)
(*                                                                         *)
(* Specifications:                                                         *)
(*   SpecKey    getComparisonKey applied once and then again to its own    *)
(*              result, for every string up to MaxLen characters.          *)
(*   SpecMerge  handleMerge and its deferred callback, started from every  *)
(*              configuration of files, selections, mode and tolerance     *)
(*              within the bounds.                                         *)
(*   SpecValidate  the same, over sheet and column selections that are     *)
(*              missing, empty or out of range.                            *)
(*   SpecFinder handleFindDuplicates and its deferred callback, started    *)
(*              from every sheet, column selection and setting within the  *)
(*              bounds.                                                    *)
(*   SpecFuzzy  the same in Fuzzy mode alone, over rows whose keys form a   *)
(*              chain of near-duplicates.                                  *)
(*   SpecRowKey the row key of the duplicate finder applied to two rows.   *)
(*   SpecBothKeys  the key functions of the two tools applied to the same  *)
(*              string.                                                    *)
(*   SpecTool   the handlers of VLookupTool as the user can call them:     *)
(*              count change, file upload (split at its await),            *)
(*              selection change, merge.  SpecToolFair adds that a         *)
(*              scheduled callback is run.                                 *)
(*   SpecPreCheck  handleMerge called on every configuration with a file   *)
(*              or a selection missing or half made.                       *)
(***************************************************************************)
EXTENDS Integers, Sequences, FiniteSets, TLC

VARIABLES
    \* ---- React state of VLookupTool (VLookupTool.tsx:20-32) ----
    fileA,                 \* ExcelData | null
    dataSourceCount,       \* number of data source slots
    dataSources,           \* sequence of ExcelData | null
    selectionA,            \* [sheet, column]
    dataSourceSelections,  \* sequence of [sheet, lookupColumn, returnColumns]
    mergedData,            \* result table, NoTable when null
    stats,                 \* [total, matched, unmatched] | null
    isLoading,
    error,                 \* [kind, source] | null
    matchMode,
    matchTolerance,
    \* ---- pending setTimeout callbacks, each with the closure it captured ----
    timers,
    \* ---- handleFile calls waiting at `await parseExcelFile` ----
    uploads,
    \* ---- key function harness ----
    keyInput,              \* the string handed to getComparisonKey
    keyMode,               \* 'exact' | 'normalized'
    keyCalls,              \* results of the successive applications
    \* ---- React state of DuplicateFinderTool (Slider.tsx:54-80), a record ----
    \* ---- with one field per useState hook                             ----
    finder,
    \* ---- its pending setTimeout callbacks ----
    finderTimers

toolVars == <<fileA, dataSourceCount, dataSources, selectionA,
              dataSourceSelections, mergedData, stats, isLoading, error,
              matchMode, matchTolerance, timers, uploads>>
keyVars == <<keyInput, keyMode, keyCalls>>
finderVars == <<finder, finderTimers>>
vars == <<fileA, dataSourceCount, dataSources, selectionA,
          dataSourceSelections, mergedData, stats, isLoading, error,
          matchMode, matchTolerance, timers, uploads,
          keyInput, keyMode, keyCalls, finder, finderTimers>>

-----------------------------------------------------------------------------
(* Bounds *)

\* longest string handed to the key function in SpecKey
MaxLen == 3

\* data rows of a merge, counted over the primary and all secondary sheets
MaxRows == 3

\* data sources of a merge (the tool itself allows up to 10)
MaxSources == 2

\* largest fuzzy tolerance tried (the slider allows up to 5)
MaxTolerance == 1

-----------------------------------------------------------------------------
(* Characters *)

\* the precomposed letter U+00E9 and the combining acute accent U+0301
EAcute == "e+acute"
CombiningAcute == "+acute"

DigitChars == {"0", "1", "2", "3", "4", "5", "6", "7", "8", "9"}
LowerChars == {"a", "b", "c", "d", "e", "f", "g", "h", "i", "j", "k", "l", "m",
               "n", "o", "p", "q", "r", "s", "t", "u", "v", "w", "x", "y", "z"}
UpperSeq == <<"A", "B", "C", "D", "E", "F", "G", "H", "I", "J", "K", "L", "M",
              "N", "O", "P", "Q", "R", "S", "T", "U", "V", "W", "X", "Y", "Z">>
LowerSeq == <<"a", "b", "c", "d", "e", "f", "g", "h", "i", "j", "k", "l", "m",
              "n", "o", "p", "q", "r", "s", "t", "u", "v", "w", "x", "y", "z">>
WhitespaceChars == {" "}

\* the alphabet of SpecKey: a digit, a zero, sign, point, blank, a letter in
\* both cases and an accented letter
KeyChars == {"0", "5", "-", ".", " ", "a", "A", EAcute}

Strings(chars, n) == UNION {[1..k -> chars] : k \in 0..n}

-----------------------------------------------------------------------------
(* String primitives of the JavaScript runtime *)

RECURSIVE TrimStart(_)
TrimStart(s) ==
    IF s # <<>> /\ Head(s) \in WhitespaceChars THEN TrimStart(Tail(s)) ELSE s

RECURSIVE TrimEnd(_)
TrimEnd(s) ==
    IF s # <<>> /\ s[Len(s)] \in WhitespaceChars
    THEN TrimEnd(SubSeq(s, 1, Len(s) - 1)) ELSE s

\* String.prototype.trim
Trim(s) == TrimEnd(TrimStart(s))

\* key.replace(/\s+/g, ' '): every maximal run of whitespace becomes one blank
RECURSIVE CollapseWhitespace(_)
CollapseWhitespace(s) ==
    IF s = <<>> THEN <<>>
    ELSE IF Head(s) \in WhitespaceChars
         THEN <<" ">> \o CollapseWhitespace(TrimStart(s))
         ELSE <<Head(s)>> \o CollapseWhitespace(Tail(s))

\* /^-?\d*\.?\d+$/.test(key)
IsNumeric(s) ==
    LET body == IF s # <<>> /\ Head(s) = "-" THEN Tail(s) ELSE s
        dots == {i \in 1..Len(body) : body[i] = "."}
    IN  /\ body # <<>>
        /\ body[Len(body)] \in DigitChars
        /\ \A i \in 1..Len(body) : body[i] \in DigitChars \cup {"."}
        /\ Cardinality(dots) <= 1

RECURSIVE StripLeadingZeros(_)
StripLeadingZeros(s) ==
    IF s # <<>> /\ Head(s) = "0" THEN StripLeadingZeros(Tail(s)) ELSE s

RECURSIVE StripTrailingZeros(_)
StripTrailingZeros(s) ==
    IF s # <<>> /\ s[Len(s)] = "0"
    THEN StripTrailingZeros(SubSeq(s, 1, Len(s) - 1)) ELSE s

\* String(parseFloat(key)) for a key that passed IsNumeric.  The decimal
\* digits are kept as text: for keys of fewer than seven characters the value
\* is printed without exponent and without rounding, so the result is the
\* integer part without leading zeros, the fraction without trailing zeros,
\* and the sign unless the value is zero (String(-0) is "0").
StringOfParseFloat(s) ==
    LET negative == Head(s) = "-"
        body == IF negative THEN Tail(s) ELSE s
        dots == {i \in 1..Len(body) : body[i] = "."}
        dot == IF dots = {} THEN Len(body) + 1 ELSE CHOOSE i \in dots : TRUE
        intDigits == StripLeadingZeros(SubSeq(body, 1, dot - 1))
        fraction == StripTrailingZeros(SubSeq(body, dot + 1, Len(body)))
        isZero == intDigits = <<>> /\ fraction = <<>>
    IN  (IF negative /\ ~isZero THEN <<"-">> ELSE <<>>)
        \o (IF intDigits = <<>> THEN <<"0">> ELSE intDigits)
        \o (IF fraction = <<>> THEN <<>> ELSE <<".">> \o fraction)

\* key.normalize('NFD'): canonical decomposition
RECURSIVE NormalizeNFD(_)
NormalizeNFD(s) ==
    IF s = <<>> THEN <<>>
    ELSE (IF Head(s) = EAcute THEN <<"e", CombiningAcute>> ELSE <<Head(s)>>)
         \o NormalizeNFD(Tail(s))

\* .replace(/[\u0300-\u036f]/g, '')
StripCombiningMarks(s) ==
    LET Keep(c) == c # CombiningAcute IN SelectSeq(s, Keep)

\* .toLowerCase()
ToLowerCase(s) ==
    [i \in 1..Len(s) |->
        IF \E j \in 1..26 : UpperSeq[j] = s[i]
        THEN LowerSeq[CHOOSE j \in 1..26 : UpperSeq[j] = s[i]]
        ELSE s[i]]

\* .replace(/[^a-z0-9]/gi, '')
StripNonAlphanumeric(s) ==
    LET Keep(c) == \/ c \in LowerChars \cup DigitChars
                   \/ \E j \in 1..26 : UpperSeq[j] = c
    IN  SelectSeq(s, Keep)

-----------------------------------------------------------------------------
(* getComparisonKey, VLookupTool.tsx:157-166 *)

getComparisonKey(value, mode) ==
    LET key == value
    IN  IF mode = "exact"
        THEN Trim(CollapseWhitespace(key))
        ELSE LET key2 == IF IsNumeric(key) THEN StringOfParseFloat(key) ELSE key
             IN  StripNonAlphanumeric(
                     ToLowerCase(StripCombiningMarks(NormalizeNFD(key2))))

-----------------------------------------------------------------------------
(* Values *)

\* null of a state variable that otherwise holds a record
null == [null |-> TRUE]

\* null of mergedData: the code never stores a table without a header row
NoTable == <<>>

\* null of a column selection (column: null, lookupColumn: null)
NullColumn == 0 - 1

\* the value of reading a cell past the end of a row
Undefined == <<"undefined">>

\* the 'N/A' filler cell
NA == <<"N", "/", "A">>

\* the 'Matched_' header prefix
MatchedPrefix == <<"M", "a", "t", "c", "h", "e", "d", "_">>

\* the initial minDistance, above every distance
Infinity == 1000000

\* if (x) on a cell: the empty string and undefined are falsy
Truthy(cell) == cell # <<>> /\ cell # Undefined

\* row[colIndex], columns counted from 0
Cell(row, colIndex) ==
    IF colIndex + 1 \in 1..Len(row) THEN row[colIndex + 1] ELSE Undefined

Min2(a, b) == IF a <= b THEN a ELSE b

\* Array.from / Array.prototype.map return an array: the function is turned
\* into the tuple of its values
ArrayOf(f) == f \o <<>>

-----------------------------------------------------------------------------
(* levenshteinDistance, VLookupTool.tsx:138-155 *)

\* the inner loop, lines 145-152: row j of the matrix from row j - 1 (prev),
\* filled from the left; cur holds matrix[j][0 .. Len(cur) - 1]
RECURSIVE MatrixRow(_, _, _, _, _)
MatrixRow(a, b, j, prev, cur) ==
    IF Len(cur) = Len(a) + 1 THEN cur
    ELSE LET i == Len(cur)
             cost == IF a[i] = b[j] THEN 0 ELSE 1
         IN  MatrixRow(a, b, j, prev,
                 Append(cur, Min2(Min2(cur[i] + 1, prev[i + 1] + 1),
                                  prev[i] + cost)))

\* the outer loop, line 144: the last row of the matrix
RECURSIVE MatrixRows(_, _, _, _)
MatrixRows(a, b, j, prev) ==
    IF j > Len(b) THEN prev
    ELSE MatrixRows(a, b, j + 1, MatrixRow(a, b, j, prev, <<j>>))

levenshteinDistance(a, b) ==
    IF Len(a) = 0 THEN Len(b)
    ELSE IF Len(b) = 0 THEN Len(a)
    ELSE MatrixRows(a, b, 1, ArrayOf([i \in 1..(Len(a) + 1) |-> i - 1]))[Len(a) + 1]

-----------------------------------------------------------------------------
(* The lookup map: a JavaScript Map, kept as the sequence of its entries in   *)
(* insertion order.                                                           *)

MapHas(lookupMap, key) == \E e \in 1..Len(lookupMap) : lookupMap[e].key = key

MapGet(lookupMap, key) ==
    lookupMap[CHOOSE e \in 1..Len(lookupMap) : lookupMap[e].key = key].values

MapKeys(lookupMap) == [e \in 1..Len(lookupMap) |-> lookupMap[e].key]

\* if (!lookupMap.has(finalKey)) lookupMap.set(finalKey, values), lines 191-193
LookupInsertLastWins(lookupMap, finalKey, values) ==
    IF MapHas(lookupMap, finalKey)
    THEN [e \in 1..Len(lookupMap) |->
             IF lookupMap[e].key = finalKey
             THEN [key |-> finalKey, values |-> values] ELSE lookupMap[e]]
    ELSE Append(lookupMap, [key |-> finalKey, values |-> values])

LookupInsert(lookupMap, finalKey, values) ==
    IF ~MapHas(lookupMap, finalKey)
    THEN Append(lookupMap, [key |-> finalKey, values |-> values])
    ELSE lookupMap

\* the body of the loop over sheetData.slice(1), lines 186-195
RECURSIVE BuildLookupMap(_, _, _, _)
BuildLookupMap(rows, selection, mode, lookupMap) ==
    IF rows = <<>> THEN lookupMap
    ELSE LET row == Head(rows)
             key == Cell(row, selection.lookupColumn)
             values == [c \in 1..Len(selection.returnColumns) |->
                           Cell(row, selection.returnColumns[c])]
             next == IF Truthy(key)
                     THEN LookupInsert(lookupMap, getComparisonKey(key, mode), values)
                     ELSE lookupMap
         IN  BuildLookupMap(Tail(rows), selection, mode, next)

-----------------------------------------------------------------------------
(* Validation, lines 170-172 and 179-183 *)

\* dataSource.sheets[selection.sheet]; a sheet the file does not have reads
\* as undefined, which the checks treat like a sheet without rows
SheetOf(file, sheet) ==
    IF sheet \in DOMAIN file.sheets THEN file.sheets[sheet] ELSE <<>>

\* !sheetData || sheetData.length === 0
SheetIsEmpty(sheetData) == Len(sheetData) = 0

\* sheetData[0]?.length ?? 0
HeaderWidth(sheetData) == IF sheetData = <<>> THEN 0 ELSE Len(sheetData[1])

\* col >= (sheetData[0]?.length ?? 0)
ColumnOutOfRangeOffByOne(col, sheetData) == col > HeaderWidth(sheetData)

ColumnOutOfRange(col, sheetData) == col >= HeaderWidth(sheetData)

Thrown(kind, file) == [kind |-> kind, file |-> file]

\* the throws of File A, lines 171-172; file 0 is File A
PrimaryError(file, selection) ==
    LET sheetAData == SheetOf(file, selection.sheet)
    IN  IF SheetIsEmpty(sheetAData) THEN Thrown("EmptySheet", 0)
        ELSE IF ColumnOutOfRange(selection.column, sheetAData)
             THEN Thrown("InvalidLookupColumn", 0)
             ELSE null

\* the throws of data source number index (1 is Data Source B), lines 177-183
SourceErrorLookupOnly(dataSource, selection, index) ==
    IF dataSource = null THEN null
    ELSE LET sheetData == SheetOf(dataSource, selection.sheet)
         IN  IF SheetIsEmpty(sheetData) THEN Thrown("EmptySheet", index)
             ELSE IF ColumnOutOfRange(selection.lookupColumn, sheetData)
                  THEN Thrown("InvalidLookupColumn", index)
                  ELSE null

SourceError(dataSource, selection, index) ==
    IF dataSource = null THEN null
    ELSE LET sheetData == SheetOf(dataSource, selection.sheet)
         IN  IF SheetIsEmpty(sheetData) THEN Thrown("EmptySheet", index)
             ELSE IF ColumnOutOfRange(selection.lookupColumn, sheetData)
                  THEN Thrown("InvalidLookupColumn", index)
                  ELSE IF \E c \in 1..Len(selection.returnColumns) :
                              ColumnOutOfRange(selection.returnColumns[c], sheetData)
                       THEN Thrown("InvalidReturnColumn", index)
                       ELSE null

-----------------------------------------------------------------------------
(* Matching one primary value against one lookup map, lines 219-246 *)

\* Array(selection.returnColumns.length).fill('N/A')
NARow(selection) == [c \in 1..Len(selection.returnColumns) |-> NA]

\* if (distance < minDistance), line 228
FuzzyImprovesOrTies(distance, minDistance) == distance <= minDistance

FuzzyImproves(distance, minDistance) == distance < minDistance

\* a comparison with < in place of <=
FuzzyWithinStrict(minDistance, tolerance) == minDistance < tolerance

\* minDistance <= matchTolerance, line 234
FuzzyWithin(minDistance, tolerance) == minDistance <= tolerance

\* let minDistance = Infinity; let bestMatchKey = null, lines 224-225
NoBest == [minDistance |-> Infinity, bestMatchKey |-> <<>>, isNull |-> TRUE]

\* for (const key of lookupMap.keys()) { ... }, lines 226-233
RECURSIVE FuzzyScan(_, _, _)
FuzzyScan(keys, normalizedLookup, best) ==
    IF keys = <<>> THEN best
    ELSE LET key == Head(keys)
             distance == levenshteinDistance(normalizedLookup, key)
             next == IF FuzzyImproves(distance, best.minDistance)
                     THEN [minDistance |-> distance, bestMatchKey |-> key,
                           isNull |-> FALSE]
                     ELSE best
         IN  IF next.minDistance = 0 THEN next
             ELSE FuzzyScan(Tail(keys), normalizedLookup, next)

\* the matchedValues pushed for one data source and whether the row matched it
MatchSource(lookupValue, lookupMap, selection, mode, tolerance) ==
    IF ~Truthy(lookupValue)
    THEN [values |-> NARow(selection), matched |-> FALSE]
    ELSE IF mode = "fuzzy"
         THEN LET normalizedLookup == getComparisonKey(lookupValue, "normalized")
                  best == FuzzyScan(MapKeys(lookupMap), normalizedLookup, NoBest)
              IN  IF ~best.isNull /\ FuzzyWithin(best.minDistance, tolerance)
                  THEN [values |-> MapGet(lookupMap, best.bestMatchKey),
                        matched |-> TRUE]
                  ELSE [values |-> NARow(selection), matched |-> FALSE]
         ELSE LET finalLookupValue == getComparisonKey(lookupValue, mode)
              IN  IF MapHas(lookupMap, finalLookupValue)
                  THEN [values |-> MapGet(lookupMap, finalLookupValue),
                        matched |-> TRUE]
                  ELSE [values |-> NARow(selection), matched |-> FALSE]

-----------------------------------------------------------------------------
(* The deferred computation, lines 169-268, on the closure c it captured *)

RECURSIVE Flatten(_)
Flatten(seqs) == IF seqs = <<>> THEN <<>> ELSE Head(seqs) \o Flatten(Tail(seqs))

\* sheetAData.slice(1), line 174
DataRowsSkipFirst(sheetData) ==
    IF Len(sheetData) <= 1 THEN <<>> ELSE Tail(Tail(sheetData))

DataRows(sheetData) == Tail(sheetData)

\* const mapNormalizationMode = ..., line 175
mapNormalizationMode(mode) == IF mode = "exact" THEN "exact" ELSE "normalized"

\* the first throw of the try block, in evaluation order, or null
ValidationError(c) ==
    LET primary == PrimaryError(c.fileA, c.selectionA)
        failing == {i \in 1..Len(c.dataSources) :
                       SourceError(c.dataSources[i], c.dataSourceSelections[i], i) # null}
    IN  IF primary # null THEN primary
        ELSE IF failing = {} THEN null
        ELSE LET first == CHOOSE i \in failing : \A k \in failing : i <= k
             IN  SourceError(c.dataSources[first], c.dataSourceSelections[first], first)

\* const lookupMaps = dataSources.map(...), lines 176-197
lookupMaps(c) ==
    ArrayOf([i \in 1..Len(c.dataSources) |->
        IF c.dataSources[i] = null THEN <<>>
        ELSE BuildLookupMap(
                 Tail(SheetOf(c.dataSources[i], c.dataSourceSelections[i].sheet)),
                 c.dataSourceSelections[i],
                 mapNormalizationMode(c.matchMode), <<>>)])

\* const newHeaders = ..., with one name per data source instead of one per
\* return column
newHeadersOnePerSource(c) ==
    LET headerA == SheetOf(c.fileA, c.selectionA.sheet)[1]
        added == [i \in 1..Len(c.dataSources) |->
                    IF c.dataSources[i] = null THEN <<>>
                    ELSE LET selection == c.dataSourceSelections[i]
                             sheetData == SheetOf(c.dataSources[i], selection.sheet)
                         IN  <<MatchedPrefix
                               \o Cell(sheetData[1], selection.returnColumns[1])>>]
    IN  headerA \o Flatten(added)

\* const newHeaders = ..., lines 199-208
newHeaders(c) ==
    LET headerA == SheetOf(c.fileA, c.selectionA.sheet)[1]
        added == [i \in 1..Len(c.dataSources) |->
                    IF c.dataSources[i] = null THEN <<>>
                    ELSE LET selection == c.dataSourceSelections[i]
                             sheetData == SheetOf(c.dataSources[i], selection.sheet)
                         IN  [r \in 1..Len(selection.returnColumns) |->
                                 MatchedPrefix
                                 \o Cell(sheetData[1], selection.returnColumns[r])]]
    IN  headerA \o Flatten(added)

\* what dataA.map(row => ...) does with one row, lines 213-256; first as it
\* would be if a miss on one data source ended the row's matching
MergeRowStopAtMiss(row, c, maps) ==
    LET lookupValue == Cell(row, c.selectionA.column)
        found == ArrayOf([i \in 1..Len(maps) |->
                    MatchSource(lookupValue, maps[i], c.dataSourceSelections[i],
                                c.matchMode, c.matchTolerance)])
        live == [i \in 1..Len(maps) |-> \A k \in 1..i : found[k].matched]
    IN  [newRow |-> row \o Flatten([i \in 1..Len(maps) |->
                                       IF live[i] THEN found[i].values
                                       ELSE NARow(c.dataSourceSelections[i])]),
         hasAnyMatch |-> \E i \in 1..Len(maps) : live[i]]

MergeRow(row, c, maps) ==
    LET lookupValue == Cell(row, c.selectionA.column)
        found == ArrayOf([i \in 1..Len(maps) |->
                    MatchSource(lookupValue, maps[i], c.dataSourceSelections[i],
                                c.matchMode, c.matchTolerance)])
    IN  [newRow |-> row \o Flatten([i \in 1..Len(maps) |-> found[i].values]),
         hasAnyMatch |-> \E i \in 1..Len(maps) : found[i].matched]

\* if (matchedCount === 0), line 258
NoMatchesFoundAnyUnmatched(resultStats) == resultStats.unmatched > 0

NoMatchesFound(resultStats) == resultStats.matched = 0

\* the result of the try block when nothing is thrown
MergeResult(c) ==
    LET dataA == DataRows(SheetOf(c.fileA, c.selectionA.sheet))
        maps == lookupMaps(c)
        merged == ArrayOf([r \in 1..Len(dataA) |-> MergeRow(dataA[r], c, maps)])
        matchedCount == Cardinality({r \in 1..Len(dataA) : merged[r].hasAnyMatch})
        unmatchedCount == Len(dataA) - matchedCount
    IN  [stats |-> [total |-> Len(dataA), matched |-> matchedCount,
                    unmatched |-> unmatchedCount],
         mergedData |-> <<newHeaders(c)>>
                        \o [r \in 1..Len(dataA) |-> merged[r].newRow]]

-----------------------------------------------------------------------------
(* State after construction, lines 20-33 *)

InitialSelectionA == [sheet |-> "", column |-> NullColumn]
InitialSelectionB == [sheet |-> "", lookupColumn |-> NullColumn, returnColumns |-> <<>>]

InitTool ==
    /\ fileA = null
    /\ dataSourceCount = 1
    /\ dataSources = <<null>>
    /\ selectionA = InitialSelectionA
    /\ dataSourceSelections = <<InitialSelectionB>>
    /\ mergedData = NoTable
    /\ stats = null
    /\ isLoading = FALSE
    /\ error = null
    /\ matchMode = "normalized"
    /\ matchTolerance = 1
    /\ timers = <<>>
    /\ uploads = {}

KeyIdle ==
    /\ keyInput = <<>>
    /\ keyMode = "normalized"
    /\ keyCalls = <<>>

\* DuplicateFinderTool after construction, Slider.tsx:54-80
InitialFinder ==
    [file |-> null, selectedSheet |-> "", selectedColumns |-> <<>>,
     results |-> null, activeView |-> "unique", stats |-> null,
     isLoading |-> FALSE, error |-> null,
     matchMode |-> "normalized", matchTolerance |-> 1,
     keepLogic |-> "first", actionOption |-> "remove",
     checkEntireRow |-> FALSE]

FinderIdle ==
    /\ finder = InitialFinder
    /\ finderTimers = <<>>

-----------------------------------------------------------------------------
(* handleMerge, lines 121-137 and 276, and the merge button, lines 293-298   *)
(* and 401                                                                    *)

\* the test of the sheet alone
SelectionBIncompleteSheetOnly(sel) == sel.sheet = ""

SelectionBIncomplete(sel) ==
    sel.sheet = "" \/ sel.lookupColumn = NullColumn \/ Len(sel.returnColumns) = 0

isMergeDisabled ==
    \/ isLoading \/ fileA = null \/ selectionA.sheet = ""
    \/ selectionA.column = NullColumn
    \/ \E i \in 1..Len(dataSources) : dataSources[i] = null
    \/ \E i \in 1..Len(dataSourceSelections) :
          SelectionBIncomplete(dataSourceSelections[i])

\* the state the callback closes over, line 277
Closure ==
    [fileA |-> fileA, dataSources |-> dataSources, selectionA |-> selectionA,
     dataSourceSelections |-> dataSourceSelections, matchMode |-> matchMode,
     matchTolerance |-> matchTolerance]

handleMerge ==
    /\ IF fileA = null \/ selectionA.sheet = "" \/ selectionA.column = NullColumn
       THEN /\ error' = Thrown("SelectMainFile", 0)
            /\ UNCHANGED <<isLoading, timers>>
       ELSE IF \E i \in 1..Len(dataSources) : dataSources[i] = null
       THEN /\ error' = Thrown("UploadDataSources", 0)
            /\ UNCHANGED <<isLoading, timers>>
       ELSE IF \E i \in 1..Len(dataSourceSelections) :
                  SelectionBIncomplete(dataSourceSelections[i])
       THEN /\ error' = Thrown("ConfigureDataSources", 0)
            /\ UNCHANGED <<isLoading, timers>>
       ELSE /\ isLoading' = TRUE
            /\ error' = null
            /\ timers' = Append(timers, Closure)
    /\ UNCHANGED <<fileA, dataSourceCount, dataSources, selectionA,
                   dataSourceSelections, mergedData, stats, matchMode,
                   matchTolerance, uploads>>
    /\ UNCHANGED keyVars
    /\ UNCHANGED finderVars

\* a click on the merge button, which is disabled while isMergeDisabled
ClickMerge == ~isMergeDisabled /\ handleMerge

\* the callback without its `finally` block
MergeTimeoutKeepsLoading ==
    /\ timers # <<>>
    /\ LET c == Head(timers)
           thrown == ValidationError(c)
       IN  IF thrown # null
           THEN /\ error' = thrown
                /\ UNCHANGED <<stats, mergedData>>
           ELSE LET result == MergeResult(c)
                IN  /\ error' = IF NoMatchesFound(result.stats)
                                THEN Thrown("NoMatches", 0) ELSE error
                    /\ stats' = result.stats
                    /\ mergedData' = result.mergedData
    /\ timers' = Tail(timers)
    /\ UNCHANGED <<fileA, dataSourceCount, dataSources, selectionA,
                   dataSourceSelections, matchMode, matchTolerance, uploads,
                   isLoading>>
    /\ UNCHANGED keyVars
    /\ UNCHANGED finderVars

\* the setTimeout callback, lines 168-276
MergeTimeout ==
    /\ timers # <<>>
    /\ LET c == Head(timers)
           thrown == ValidationError(c)
       IN  IF thrown # null
           THEN /\ error' = thrown
                /\ UNCHANGED <<stats, mergedData>>
           ELSE LET result == MergeResult(c)
                IN  /\ error' = IF NoMatchesFound(result.stats)
                                THEN Thrown("NoMatches", 0) ELSE error
                    /\ stats' = result.stats
                    /\ mergedData' = result.mergedData
    /\ isLoading' = FALSE
    /\ timers' = Tail(timers)
    /\ UNCHANGED <<fileA, dataSourceCount, dataSources, selectionA,
                   dataSourceSelections, matchMode, matchTolerance, uploads>>
    /\ UNCHANGED keyVars
    /\ UNCHANGED finderVars

-----------------------------------------------------------------------------
(* Workbooks as parseExcelFile delivers them (excelService.ts:27-58): every  *)
(* sheet is a rectangle of trimmed strings.  A workbook here has the sheet   *)
(* "S", a header row and data rows of two columns, the sheet "H", the same   *)
(* header row and no data row, and the sheet "E", which has no rows at all;  *)
(* "X" names a sheet the workbook does not have.                             *)

\* lookup-column cells: blank, punctuation only, a letter, a capitalised
\* two-letter word
CellValues == {<<>>, <<"-">>, <<"a">>, <<"A", "b">>}

HeaderA == << <<"I", "d">>, <<"P">> >>
HeaderB == << <<"K">>, <<"V">> >>

\* column 0 holds the lookup cells, column 1 a cell that tells the rows apart
PrimarySheet(cells) ==
    <<HeaderA>> \o [r \in 1..Len(cells) |-> <<cells[r], <<"p", ToString(r)>>>>]

SecondarySheet(cells) ==
    <<HeaderB>> \o [r \in 1..Len(cells) |-> <<cells[r], <<"v", ToString(r)>>>>]

Workbook(sheetData) ==
    [sheets |-> [S |-> sheetData, H |-> <<Head(sheetData)>>, E |-> <<>>]]

ModeChoices ==
    {[mode |-> "exact", tolerance |-> 1], [mode |-> "normalized", tolerance |-> 1]}
    \cup {[mode |-> "fuzzy", tolerance |-> t] : t \in 0..MaxTolerance}

\* Every merge of up to MaxSources data sources over sheets with up to MaxRows
\* data rows in all, with the lookup column 0 and the return column 1 selected.
InitMerge ==
    /\ \E n \in 1..MaxSources, all \in Strings(CellValues, MaxRows) :
         \E cut \in [1..n -> 0..Len(all)] :
            /\ \A i \in 1..(n - 1) : cut[i] <= cut[i + 1]
            /\ dataSourceCount = n
            /\ fileA = Workbook(PrimarySheet(SubSeq(all, 1, cut[1])))
            /\ dataSources =
                  [i \in 1..n |->
                      Workbook(SecondarySheet(
                          SubSeq(all, cut[i] + 1,
                                 IF i = n THEN Len(all) ELSE cut[i + 1])))]
            /\ dataSourceSelections =
                  [i \in 1..n |->
                      [sheet |-> "S", lookupColumn |-> 0, returnColumns |-> <<1>>]]
    /\ selectionA = [sheet |-> "S", column |-> 0]
    /\ \E m \in ModeChoices : matchMode = m.mode /\ matchTolerance = m.tolerance
    /\ mergedData = NoTable
    /\ stats = null
    /\ isLoading = FALSE
    /\ error = null
    /\ timers = <<>>
    /\ uploads = {}
    /\ KeyIdle
    /\ FinderIdle

NextMerge == ClickMerge \/ MergeTimeout

SpecMerge == InitMerge /\ [][NextMerge]_vars

\* Every selection of a sheet and of columns, in and out of range, over
\* workbooks of one data row each.
SheetChoices == {"S", "H", "E", "X"}
ColumnChoices == {0, Len(HeaderB)}
ReturnColumnChoices == {<<1>>, <<1, 0>>, <<Len(HeaderB)>>, <<1, Len(HeaderB)>>}

InitValidate ==
    /\ \E n \in 1..MaxSources :
         /\ dataSourceCount = n
         /\ dataSources = [i \in 1..n |-> Workbook(SecondarySheet(<< <<"a">> >>))]
         /\ dataSourceSelections \in
               [1..n -> [sheet : SheetChoices, lookupColumn : ColumnChoices,
                         returnColumns : ReturnColumnChoices]]
    /\ fileA = Workbook(PrimarySheet(<< <<"a">> >>))
    /\ selectionA \in [sheet : SheetChoices, column : ColumnChoices]
    /\ matchMode = "normalized"
    /\ matchTolerance = 1
    /\ mergedData = NoTable
    /\ stats = null
    /\ isLoading = FALSE
    /\ error = null
    /\ timers = <<>>
    /\ uploads = {}
    /\ KeyIdle
    /\ FinderIdle

SpecValidate == InitValidate /\ [][NextMerge]_vars

-----------------------------------------------------------------------------
(* The key function applied to a string and then to its own result *)

InitKey ==
    /\ InitTool
    /\ keyInput \in Strings(KeyChars, MaxLen)
    /\ keyMode \in {"exact", "normalized"}
    /\ keyCalls = <<>>
    /\ FinderIdle

ApplyKey ==
    /\ Len(keyCalls) < 2
    /\ keyCalls' = Append(keyCalls,
                          getComparisonKey(IF keyCalls = <<>> THEN keyInput
                                           ELSE keyCalls[Len(keyCalls)],
                                           keyMode))
    /\ UNCHANGED <<keyInput, keyMode>>
    /\ UNCHANGED toolVars
    /\ UNCHANGED finderVars

NextKey == ApplyKey

SpecKey == InitKey /\ [][NextKey]_vars

-----------------------------------------------------------------------------
(* Vocabulary of the properties *)

\* the deferred callback has run and none is pending
MergeFinished ==
    /\ ~isLoading
    /\ timers = <<>>
    /\ stats # null \/ error # null

\* the selected sheets as the properties read them, straight from the files
SheetA == SheetOf(fileA, selectionA.sheet)
SheetB(i) == SheetOf(dataSources[i], dataSourceSelections[i].sheet)

Sources == 1..Len(dataSources)

\* the data rows of the primary sheet are rows 2.. of SheetA; PrimaryRows
\* are their positions in the sheet and in the result table alike
PrimaryRows == 2..Len(SheetA)
SecondaryRows(i) == 2..Len(SheetB(i))

\* the lookup cell of primary row r
LookupCell(r) == SheetA[r][selectionA.column + 1]

\* the lookup cell and the return cells of row r of data source i
SourceKeyCell(i, r) == SheetB(i)[r][dataSourceSelections[i].lookupColumn + 1]
SourceValues(i, r) ==
    [c \in 1..Len(dataSourceSelections[i].returnColumns) |->
        SheetB(i)[r][dataSourceSelections[i].returnColumns[c] + 1]]

\* the mode the lookup tables are keyed under
TableMode == IF matchMode = "exact" THEN "exact" ELSE "normalized"

\* the canonical key of row r of data source i
SourceKey(i, r) == getComparisonKey(SourceKeyCell(i, r), TableMode)

\* the cells of result row r that were appended for data source i
RECURSIVE ReturnWidthBefore(_)
ReturnWidthBefore(i) ==
    IF i <= 1 THEN 0
    ELSE ReturnWidthBefore(i - 1) + Len(dataSourceSelections[i - 1].returnColumns)

Appended(r, i) ==
    SubSeq(mergedData[r],
           Len(SheetA[r]) + ReturnWidthBefore(i) + 1,
           Len(SheetA[r]) + ReturnWidthBefore(i)
               + Len(dataSourceSelections[i].returnColumns))

AllNA(i) == [c \in 1..Len(dataSourceSelections[i].returnColumns) |-> NA]

\* the edit distance by its textbook recurrence
RECURSIVE EditDistance(_, _)
EditDistance(a, b) ==
    IF a = <<>> THEN Len(b)
    ELSE IF b = <<>> THEN Len(a)
    ELSE Min2(Min2(EditDistance(Tail(a), b) + 1, EditDistance(a, Tail(b)) + 1),
              EditDistance(Tail(a), Tail(b))
                  + (IF Head(a) = Head(b) THEN 0 ELSE 1))

-----------------------------------------------------------------------------
(* C1 *)

\* C1: normalising a Normalized key again gives the same key:
\* normalize(normalize(x, Normalized), Normalized) = normalize(x, Normalized).
\* Fails for "0.5": its key is "05", and the key of "05" is "5".
C1_NormalizedKeyIdempotent ==
    (keyMode = "normalized" /\ Len(keyCalls) = 2) => keyCalls[2] = keyCalls[1]

-----------------------------------------------------------------------------
(* C2 *)

\* C2: a successful merge yields one result row per primary data row, in the
\* original order, and result row i begins with the cells of primary row i.
C2_RowsPreserved ==
    mergedData # NoTable =>
        /\ Len(mergedData) = Len(SheetA)
        /\ \A r \in PrimaryRows :
              SubSeq(mergedData[r], 1, Len(SheetA[r])) = SheetA[r]

\* a finished merge of two different primary rows against two data sources
C2_Witness ==
    /\ MergeFinished
    /\ mergedData # NoTable
    /\ Len(SheetA) = 3
    /\ LookupCell(2) # LookupCell(3)
    /\ Len(dataSources) = 2

-----------------------------------------------------------------------------
(* C3 *)

-----------------------------------------------------------------------------
(* C4 *)

\* the keys of data source i's lookup table, in insertion order
TableKeys(i) == MapKeys(lookupMaps(Closure)[i])

\* the positions in TableKeys(i) nearest to q
Nearest(i, q) ==
    {e \in 1..Len(TableKeys(i)) :
        \A f \in 1..Len(TableKeys(i)) :
            EditDistance(q, TableKeys(i)[e]) <= EditDistance(q, TableKeys(i)[f])}

\* C4: in Fuzzy mode a primary value with a non-empty normalized key q gets
\* the return values of the earliest-inserted key among those at the least
\* edit distance from q, if that distance is <= tolerance, and N/A otherwise
\* or when the table is empty.
C4_FuzzyEarliestNearest ==
    (matchMode = "fuzzy" /\ MergeFinished /\ mergedData # NoTable) =>
        LET maps == lookupMaps(Closure)
        IN  \A i \in Sources :
              LET table == maps[i]
              IN  \A r \in PrimaryRows :
                    LET q == getComparisonKey(LookupCell(r), "normalized")
                        distance == [e \in 1..Len(table) |->
                                        EditDistance(q, table[e].key)]
                        nearest == {e \in 1..Len(table) :
                                       \A f \in 1..Len(table) :
                                           distance[e] <= distance[f]}
                        earliest == CHOOSE e \in nearest :
                                        \A f \in nearest : e <= f
                    IN  q # <<>> =>
                          IF table # <<>> /\ distance[earliest] <= matchTolerance
                          THEN Appended(r, i) = table[earliest].values
                          ELSE Appended(r, i) = AllNA(i)

\* a finished fuzzy merge where two keys tie at distance 1 from the primary
\* key and the earlier one was taken
C4_Witness ==
    /\ MergeFinished
    /\ mergedData # NoTable
    /\ matchMode = "fuzzy"
    /\ matchTolerance = 1
    /\ Len(SheetA) = 2
    /\ getComparisonKey(LookupCell(2), "normalized") # <<>>
    /\ Cardinality(Nearest(1, getComparisonKey(LookupCell(2), "normalized"))) = 2
    /\ Appended(2, 1) = SourceValues(1, 2)
    /\ Appended(2, 1) # AllNA(1)

-----------------------------------------------------------------------------
(* C5 *)

\* C5: the lookup table built from a secondary sheet never has the empty
\* string as a key.  Fails in Normalized and Fuzzy mode for a lookup cell "-":
\* the code tests the raw cell, not its key, before inserting.
C5_NoEmptyKeyInTable ==
    mergedData # NoTable =>
        \A i \in Sources : ~MapHas(lookupMaps(Closure)[i], <<>>)

-----------------------------------------------------------------------------
(* C6 *)

\* C6: in Exact and Normalized mode a primary value whose canonical key is
\* empty gets "N/A" for every secondary.  Fails in Normalized mode for the
\* primary value "-" against a secondary row "-".
C6_EmptyKeyNeverMatches ==
    (matchMode \in {"exact", "normalized"} /\ mergedData # NoTable) =>
        \A r \in PrimaryRows : \A i \in Sources :
            getComparisonKey(LookupCell(r), matchMode) = <<>>
                => Appended(r, i) = AllNA(i)

-----------------------------------------------------------------------------
(* C7 *)

\* C7: in Fuzzy mode a primary value whose Normalized key is empty gets "N/A"
\* for every secondary, whatever the tolerance and the table.  Fails for the
\* primary value "-" against the key "a" with tolerance 1.
C7_FuzzyEmptyKeyNoMatch ==
    (matchMode = "fuzzy" /\ mergedData # NoTable) =>
        \A r \in PrimaryRows : \A i \in Sources :
            getComparisonKey(LookupCell(r), "normalized") = <<>>
                => Appended(r, i) = AllNA(i)

-----------------------------------------------------------------------------
(* Validity of a selection, as the properties state it *)

HasRows(file, sheet) == sheet \in DOMAIN file.sheets /\ Len(file.sheets[sheet]) > 0

WidthOf(file, sheet) == IF HasRows(file, sheet) THEN Len(file.sheets[sheet][1]) ELSE 0

PrimaryValid ==
    /\ HasRows(fileA, selectionA.sheet)
    /\ selectionA.column < WidthOf(fileA, selectionA.sheet)

SourceValid(i) ==
    LET sel == dataSourceSelections[i]
    IN  /\ HasRows(dataSources[i], sel.sheet)
        /\ sel.lookupColumn < WidthOf(dataSources[i], sel.sheet)
        /\ \A c \in 1..Len(sel.returnColumns) :
              sel.returnColumns[c] < WidthOf(dataSources[i], sel.sheet)

SomeInvalid == ~PrimaryValid \/ \E i \in Sources : ~SourceValid(i)

-----------------------------------------------------------------------------
(* C8 *)

\* C8: if the primary selection or any secondary selection fails validation,
\* the merge sets no result table and no statistics, whichever selection
\* fails and however many before it are valid, and ends with an error.
C8_NoPartialMerge ==
    SomeInvalid =>
        /\ mergedData = NoTable
        /\ stats = null
        /\ MergeFinished => error # null

\* a finished merge whose second data source is the only invalid selection
C8_Witness ==
    /\ MergeFinished
    /\ Len(dataSources) = 2
    /\ PrimaryValid
    /\ SourceValid(1)
    /\ ~SourceValid(2)
    /\ error # null
    /\ error.file = 2
    /\ mergedData = NoTable

-----------------------------------------------------------------------------
(* C9 *)

HeaderOnly(file, sheet) == sheet \in DOMAIN file.sheets /\ Len(file.sheets[sheet]) = 1

\* C9: a merge whose primary or any secondary sheet has a header
\* row and no data row fails with the empty-sheet error and sets no table.
\* Fails for a header-only sheet: the code rejects only a sheet without any
\* row, and a header-only sheet yields a table and the no-matches warning.
C9_HeaderOnlySheetFails ==
    (/\ MergeFinished
     /\ \/ HeaderOnly(fileA, selectionA.sheet)
        \/ \E i \in Sources : HeaderOnly(dataSources[i], dataSourceSelections[i].sheet))
    => (error # null /\ error.kind = "EmptySheet" /\ mergedData = NoTable)

-----------------------------------------------------------------------------
(* C10 *)

SomeColumnOutOfRange ==
    \/ selectionA.column >= WidthOf(fileA, selectionA.sheet)
    \/ \E i \in Sources :
          LET sel == dataSourceSelections[i]
          IN  \/ sel.lookupColumn >= WidthOf(dataSources[i], sel.sheet)
              \/ \E c \in 1..Len(sel.returnColumns) :
                    sel.returnColumns[c] >= WidthOf(dataSources[i], sel.sheet)

\* C10: if the primary lookup column, a secondary lookup column or any one
\* return column is >= the header width of its sheet, the merge ends with an
\* error and sets no result table.
C10_ColumnOutOfRangeFails ==
    SomeColumnOutOfRange =>
        /\ mergedData = NoTable
        /\ stats = null
        /\ MergeFinished => error # null

\* a finished merge where only the second return column of the second data
\* source is out of range
C10_Witness ==
    /\ MergeFinished
    /\ Len(dataSources) = 2
    /\ PrimaryValid
    /\ SourceValid(1)
    /\ dataSourceSelections[2].sheet = "S"
    /\ dataSourceSelections[2].lookupColumn = 0
    /\ dataSourceSelections[2].returnColumns = <<1, Len(HeaderB)>>
    /\ error = [kind |-> "InvalidReturnColumn", file |-> 2]
    /\ mergedData = NoTable

-----------------------------------------------------------------------------
(* C11 *)

\* the merge the tool would run on data source i alone
OnlySource(i) ==
    [Closure EXCEPT !.dataSources = <<dataSources[i]>>,
                    !.dataSourceSelections = <<dataSourceSelections[i]>>]

\* the merge the tool would run if every data source but i had no data rows
OthersEmptied(i) ==
    [Closure EXCEPT !.dataSources =
        [k \in 1..Len(dataSources) |->
            IF k = i THEN dataSources[k] ELSE Workbook(SecondarySheet(<<>>))]]

\* C11: the cells appended to a primary row for data source i are the cells
\* a merge against data source i alone appends, and the cells a merge appends
\* when every other data source is emptied; they are |returnColumns of i|
\* cells, and are all "N/A" unless they are the values of an entry of i's
\* lookup table.
C11_SourcesIndependent ==
    (MergeFinished /\ mergedData # NoTable) =>
        LET maps == lookupMaps(Closure)
        IN  \A i \in Sources :
              LET alone == MergeResult(OnlySource(i)).mergedData
                  changed == MergeResult(OthersEmptied(i)).mergedData
                  width == Len(dataSourceSelections[i].returnColumns)
                  table == maps[i]
              IN  \A r \in PrimaryRows :
                    LET cells == Appended(r, i)
                        base == Len(SheetA[r])
                    IN  /\ Len(cells) = width
                        /\ cells = SubSeq(alone[r], base + 1, base + width)
                        /\ cells = SubSeq(changed[r],
                                          base + ReturnWidthBefore(i) + 1,
                                          base + ReturnWidthBefore(i) + width)
                        /\ (\A e \in 1..Len(table) : table[e].values # cells)
                              => cells = AllNA(i)

\* a finished merge whose primary row misses the first data source and hits
\* the second
C11_Witness ==
    /\ MergeFinished
    /\ mergedData # NoTable
    /\ Len(dataSources) = 2
    /\ Len(SheetA) = 2
    /\ Len(SheetB(1)) = 2
    /\ Len(SheetB(2)) = 2
    /\ Appended(2, 1) = AllNA(1)
    /\ Appended(2, 2) = SourceValues(2, 2)

-----------------------------------------------------------------------------
(* C12 *)

\* C12: after a successful merge the header and every data row of the result
\* have (primary header width + the number of return columns selected over
\* all data sources) cells.
C12_OutputWidth ==
    (MergeFinished /\ mergedData # NoTable) =>
        \A r \in 1..Len(mergedData) :
            Len(mergedData[r]) =
                Len(SheetA[1]) + ReturnWidthBefore(Len(dataSources) + 1)

\* a finished merge with two return columns from the first data source and
\* one from the second
C12_Witness ==
    /\ MergeFinished
    /\ mergedData # NoTable
    /\ Len(dataSources) = 2
    /\ dataSourceSelections[1].returnColumns = <<1, 0>>
    /\ dataSourceSelections[2].returnColumns = <<1>>
    /\ Len(mergedData) = 2
    /\ Len(mergedData[1]) = 5
    /\ Len(mergedData[2]) = 5

-----------------------------------------------------------------------------
(* C13 *)

\* the primary rows that took values from some data source
MatchedRows == {r \in PrimaryRows : \E i \in Sources : Appended(r, i) # AllNA(i)}

\* C13: a merge that completes sets the table and the statistics; when no
\* primary row matched any data source every appended cell is "N/A" and the
\* no-matches warning is set, and when some row matched no warning is set.
C13_NoMatchesWarning ==
    (MergeFinished /\ mergedData # NoTable) =>
        /\ stats # null
        /\ stats.total = Len(SheetA) - 1
        /\ stats.matched = Cardinality(MatchedRows)
        /\ stats.unmatched = stats.total - stats.matched
        /\ MatchedRows = {} => error = Thrown("NoMatches", 0)
        /\ MatchedRows # {} => error = null

\* a finished merge of two non-blank primary rows that matched nothing
C13_Witness ==
    /\ MergeFinished
    /\ mergedData # NoTable
    /\ Len(SheetA) = 3
    /\ Truthy(LookupCell(2))
    /\ Truthy(LookupCell(3))
    /\ Len(SheetB(1)) >= 2
    /\ MatchedRows = {}
    /\ stats = [total |-> 2, matched |-> 0, unmatched |-> 2]
    /\ error = Thrown("NoMatches", 0)

-----------------------------------------------------------------------------
(* C14 *)

\* the name the tool gives data source i: "Data Source B", "Data Source C"
SourceName(i) ==
    <<"D", "a", "t", "a", " ", "S", "o", "u", "r", "c", "e", " ">>
    \o <<UpperSeq[i + 1]>>

\* t occurs in s
Contains(s, t) ==
    \E k \in 0..(Len(s) - Len(t)) : SubSeq(s, k + 1, k + Len(t)) = t

\* C14: the result header is the primary header followed, for each data
\* source in order and each of its return columns in selection order, by a
\* name made of the data source's name and the return column's header.
\* Fails: the name is "Matched_" and the column's header, so two data sources
\* returning columns with the same header get the same name.
C14_HeaderNamesSource ==
    (MergeFinished /\ mergedData # NoTable) =>
        /\ SubSeq(mergedData[1], 1, Len(SheetA[1])) = SheetA[1]
        /\ \A i \in Sources :
              \A c \in 1..Len(dataSourceSelections[i].returnColumns) :
                  LET name == Appended(1, i)[c]
                  IN  /\ Contains(name, SourceName(i))
                      /\ Contains(name,
                            SheetB(i)[1][dataSourceSelections[i].returnColumns[c] + 1])

-----------------------------------------------------------------------------
(* C15 *)

NumericStrings == {s \in Strings(KeyChars, MaxLen) : IsNumeric(s)}

\* C15: under Normalized mode two numeric strings have the same key exactly
\* when they are the same number, i.e. have the same String(parseFloat(..)).
\* Fails for "-5" and "5", and for "5.5" and "55": the sign and the decimal
\* point are stripped after the numeric step.
C15_NumericKeyIsNumericValue ==
    (keyMode = "normalized" /\ Len(keyCalls) >= 1 /\ IsNumeric(keyInput)) =>
        \A other \in NumericStrings :
            (getComparisonKey(other, "normalized") = keyCalls[1])
                <=> (StringOfParseFloat(other) = StringOfParseFloat(keyInput))

-----------------------------------------------------------------------------
(* DuplicateFinderTool: the row key, Slider.tsx:152-169 *)

\* val.replace(/[$,..]/g, ''): the currency signs and the comma; the dollar
\* sign stands for the three currency signs
CurrencyChars == {"$", ","}

StripCurrency(s) == SelectSeq(s, LAMBDA ch : ch \notin CurrencyChars)

\* the '|_|' that joins the column keys
Delimiter == <<"|", "_", "|">>

\* the callback of cols.map, for the cell val = String(row[colIndex] ?? '')
ColumnKey(val, mode) ==
    IF mode = "exact" THEN val
    ELSE LET cleanVal == Trim(StripCurrency(val))
         IN  IF IsNumeric(cleanVal) THEN StringOfParseFloat(cleanVal)
             ELSE Trim(CollapseWhitespace(
                      ToLowerCase(StripCombiningMarks(NormalizeNFD(val)))))

\* Array.prototype.join
RECURSIVE Join(_, _)
Join(parts, separator) ==
    IF parts = <<>> THEN <<>>
    ELSE IF Len(parts) = 1 THEN parts[1]
    ELSE parts[1] \o separator \o Join(Tail(parts), separator)

\* row[colIndex] ?? ''
CellOrEmpty(row, colIndex) ==
    IF colIndex + 1 \in 1..Len(row) THEN row[colIndex + 1] ELSE <<>>

\* getComparisonKey(row, cols, mode) of DuplicateFinderTool
getRowComparisonKey(row, cols, mode) ==
    Join(ArrayOf([k \in 1..Len(cols) |->
                     ColumnKey(CellOrEmpty(row, cols[k]), mode)]),
         Delimiter)

-----------------------------------------------------------------------------
(* DuplicateFinderTool: grouping, Slider.tsx:180-211.  groups is the Map in  *)
(* insertion order, a sequence of [key, indices]; row indices count from 0.   *)

GroupsHas(groups, key) == \E e \in 1..Len(groups) : groups[e].key = key

GroupsGet(groups, key) ==
    groups[CHOOSE e \in 1..Len(groups) : groups[e].key = key].indices

\* groups.set(key, indices): a key the Map has keeps its place
GroupsSet(groups, key, indices) ==
    IF GroupsHas(groups, key)
    THEN ArrayOf([e \in 1..Len(groups) |->
             IF groups[e].key = key THEN [key |-> key, indices |-> indices]
             ELSE groups[e]])
    ELSE Append(groups, [key |-> key, indices |-> indices])

\* groups.get(key)!.push(index)
GroupsPush(groups, key, index) ==
    ArrayOf([e \in 1..Len(groups) |->
        IF groups[e].key = key
        THEN [key |-> key, indices |-> Append(groups[e].indices, index)]
        ELSE groups[e]])

\* the Exact / Normalized pass for one row, lines 204-209; first as it would
\* be if every row started a group of its own
GroupByKeyNeverJoins(groups, key, index) == GroupsSet(groups, key, <<index>>)

GroupByKey(groups, key, index) ==
    IF ~GroupsHas(groups, key) THEN GroupsSet(groups, key, <<index>>)
    ELSE GroupsPush(groups, key, index)

\* for (const existingKey of groups.keys()) { ... break }, lines 185-193
NoMatchKey == [isNull |-> TRUE, key |-> <<>>]

RECURSIVE FindMatchKey(_, _, _)
FindMatchKey(groups, currentKey, tolerance) ==
    IF groups = <<>> THEN NoMatchKey
    ELSE IF levenshteinDistance(currentKey, Head(groups).key) <= tolerance
         THEN [isNull |-> FALSE, key |-> Head(groups).key]
         ELSE FindMatchKey(Tail(groups), currentKey, tolerance)

\* the Fuzzy pass for one row with the tolerance left out of the scan
GroupFuzzyExactOnly(groups, currentKey, index, tolerance) ==
    LET foundMatchKey == FindMatchKey(groups, currentKey, 0)
    IN  IF foundMatchKey.isNull \/ foundMatchKey.key = <<>>
        THEN GroupsSet(groups, currentKey, <<index>>)
        ELSE GroupsPush(groups, foundMatchKey.key, index)

\* the Fuzzy pass for one row, lines 184-199; !foundMatchKey is true of null
\* and of the empty string
GroupFuzzy(groups, currentKey, index, tolerance) ==
    LET foundMatchKey == FindMatchKey(groups, currentKey, tolerance)
    IN  IF foundMatchKey.isNull \/ foundMatchKey.key = <<>>
        THEN GroupsSet(groups, currentKey, <<index>>)
        ELSE GroupsPush(groups, foundMatchKey.key, index)

\* rows.forEach((row, index) => ...), from row number index on
RECURSIVE BuildGroups(_, _, _, _, _, _)
BuildGroups(rows, index, cols, mode, tolerance, groups) ==
    IF index >= Len(rows) THEN groups
    ELSE BuildGroups(rows, index + 1, cols, mode, tolerance,
             IF mode = "fuzzy"
             THEN GroupFuzzy(groups,
                      getRowComparisonKey(rows[index + 1], cols, "normalized"),
                      index, tolerance)
             ELSE GroupByKey(groups,
                      getRowComparisonKey(rows[index + 1], cols, mode), index))

-----------------------------------------------------------------------------
(* DuplicateFinderTool: the views, Slider.tsx:213-277 *)

\* let keptIndex = ..., lines 224-227; first as it would be without keepLogic
keptIndexAlwaysFirst(indices, keepLogic) == indices[1]

keptIndex(indices, keepLogic) ==
    IF keepLogic = "last" THEN indices[Len(indices)] ELSE indices[1]

\* the Set duplicateIndices, lines 229-233
duplicateIndices(groups, keepLogic) ==
    UNION {{groups[e].indices[k] : k \in 1..Len(groups[e].indices)}
               \ {keptIndex(groups[e].indices, keepLogic)} :
           e \in {g \in 1..Len(groups) : groups[g].indices # <<>>}}

\* String(idx + 2) and `Group ${groupId}`
RowNumber(idx) == <<ToString(idx + 2)>>
GroupLabel(groupId) == <<"G", "r", "o", "u", "p", " ", ToString(groupId)>>

\* groupedRows with the identifier advanced after every group
RECURSIVE groupedRowsCountingAll(_, _, _, _)
groupedRowsCountingAll(groups, rows, e, groupId) ==
    IF e > Len(groups) THEN <<>>
    ELSE LET indices == groups[e].indices
         IN  (IF Len(indices) > 1
              THEN ArrayOf([k \in 1..Len(indices) |->
                       <<RowNumber(indices[k]), GroupLabel(groupId)>>
                       \o rows[indices[k] + 1]])
              ELSE <<>>)
             \o groupedRowsCountingAll(groups, rows, e + 1, groupId + 1)

\* groupedRows, lines 236-241, from group number e on
RECURSIVE groupedRows(_, _, _, _)
groupedRows(groups, rows, e, groupId) ==
    IF e > Len(groups) THEN <<>>
    ELSE LET indices == groups[e].indices
         IN  IF Len(indices) > 1
             THEN ArrayOf([k \in 1..Len(indices) |->
                      <<RowNumber(indices[k]), GroupLabel(groupId)>>
                      \o rows[indices[k] + 1]])
                  \o groupedRows(groups, rows, e + 1, groupId + 1)
             ELSE groupedRows(groups, rows, e + 1, groupId)

\* the rows pushed by rows.forEach, lines 244-255, from row number index on:
\* those with isDup = wanted
RECURSIVE RowsWhere(_, _, _, _)
RowsWhere(rows, dups, wanted, index) ==
    IF index >= Len(rows) THEN <<>>
    ELSE (IF (index \in dups) = wanted THEN <<rows[index + 1]>> ELSE <<>>)
         \o RowsWhere(rows, dups, wanted, index + 1)

flaggedRows(rows, dups) ==
    ArrayOf([r \in 1..Len(rows) |->
        Append(rows[r], IF (r - 1) \in dups THEN <<"TRUE">> ELSE <<"FALSE">>)])

\* const validColumns = ..., lines 118-122
maxCols(sheetData) ==
    IF sheetData = <<>> THEN 0
    ELSE CHOOSE m \in {Len(sheetData[r]) : r \in 1..Len(sheetData)} :
             \A r \in 1..Len(sheetData) : Len(sheetData[r]) <= m

validColumns(f) ==
    LET sheetData == IF f.file # null /\ f.selectedSheet # ""
                     THEN SheetOf(f.file, f.selectedSheet) ELSE <<>>
    IN  IF f.checkEntireRow THEN ArrayOf([i \in 1..maxCols(sheetData) |-> i - 1])
        ELSE f.selectedColumns

\* the Map groups the callback builds from the state c it captured
FinderGroups(c) ==
    BuildGroups(DataRows(SheetOf(c.file, c.selectedSheet)), 0, validColumns(c),
                c.matchMode, c.matchTolerance, <<>>)

\* what the try block sets when nothing is thrown, lines 177-277; the header
\* rows of the views are left to the tables themselves
FinderResult(c) ==
    LET sheetData == SheetOf(c.file, c.selectedSheet)
        header == sheetData[1]
        rows == DataRows(sheetData)
        groups == FinderGroups(c)
        dups == duplicateIndices(groups, c.keepLogic)
        uniqueRows == RowsWhere(rows, dups, FALSE, 0)
        duplicateRows == RowsWhere(rows, dups, TRUE, 0)
    IN  [results |->
            [original |-> <<header>> \o rows,
             unique |-> <<header>> \o uniqueRows,
             removed |-> <<header>> \o duplicateRows,
             flagged |-> IF c.actionOption = "flag"
                         THEN <<Append(header, <<"Is_Duplicate">>)>>
                              \o flaggedRows(rows, dups)
                         ELSE <<>>,
             grouped |-> <<(<< <<"Original_Row">>, <<"Group_ID">> >>) \o header>>
                         \o groupedRows(groups, rows, 1, 1),
             duplicateIndices |-> dups],
         stats |-> [original |-> Len(rows), unique |-> Len(uniqueRows),
                    removed |-> Len(duplicateRows)],
         activeView |-> IF Len(duplicateRows) > 0 THEN "grouped"
                        ELSE IF c.actionOption = "flag" THEN "flagged"
                        ELSE "unique"]

-----------------------------------------------------------------------------
(* DuplicateFinderTool: handleFindDuplicates, Slider.tsx:117-130 and 172-286, *)
(* and the button, lines 335-342 and 508-509                                  *)

isProcessDisabled ==
    \/ finder.isLoading \/ finder.file = null \/ finder.selectedSheet = ""
    \/ Len(validColumns(finder)) = 0

handleFindDuplicates ==
    /\ IF finder.file = null \/ finder.selectedSheet = ""
          \/ Len(validColumns(finder)) = 0
       THEN /\ finder' = [finder EXCEPT !.error = Thrown("SelectColumns", 0)]
            /\ UNCHANGED finderTimers
       ELSE /\ finder' = [finder EXCEPT !.isLoading = TRUE, !.error = null]
            /\ finderTimers' = Append(finderTimers, finder)
    /\ UNCHANGED toolVars
    /\ UNCHANGED keyVars

\* a click on the button, which is disabled while isProcessDisabled
ClickFindDuplicates == ~isProcessDisabled /\ handleFindDuplicates

\* the setTimeout callback, lines 172-285
FindTimeout ==
    /\ finderTimers # <<>>
    /\ LET c == Head(finderTimers)
       IN  IF SheetIsEmpty(SheetOf(c.file, c.selectedSheet))
           THEN finder' = [finder EXCEPT !.error = Thrown("EmptySheet", 0),
                                         !.isLoading = FALSE]
           ELSE LET result == FinderResult(c)
                IN  finder' = [finder EXCEPT !.results = result.results,
                                             !.stats = result.stats,
                                             !.activeView = result.activeView,
                                             !.isLoading = FALSE]
    /\ finderTimers' = Tail(finderTimers)
    /\ UNCHANGED toolVars
    /\ UNCHANGED keyVars

-----------------------------------------------------------------------------
(* Sheets for the duplicate finder: two columns, and data rows drawn from    *)
(* FinderRowValues: rows that agree in column 0, rows that differ in case    *)
(* only, and a blank row.                                                     *)

FinderHeader == << <<"N">>, <<"V">> >>

FinderRowValues ==
    { << <<"a">>, <<"1">> >>,
      << <<"a">>, <<"2">> >>,
      << <<"b">>, <<"3">> >>,
      << <<"A">>, <<"1">> >>,
      << <<>>, <<>> >> }

\* column 0 alone, or column 0 ticked and then the whole row
FinderColumnChoices ==
    {[selectedColumns |-> <<0>>, checkEntireRow |-> FALSE],
     [selectedColumns |-> <<0>>, checkEntireRow |-> TRUE]}

FinderOptionChoices ==
    {[keepLogic |-> "first", actionOption |-> "remove"],
     [keepLogic |-> "last", actionOption |-> "flag"]}

InitFinder ==
    /\ InitTool
    /\ KeyIdle
    /\ \E rows \in Strings(FinderRowValues, MaxRows),
          cols \in FinderColumnChoices,
          m \in ModeChoices,
          option \in FinderOptionChoices :
         finder = [InitialFinder EXCEPT
                      !.file = Workbook(<<FinderHeader>> \o rows),
                      !.selectedSheet = "S",
                      !.selectedColumns = cols.selectedColumns,
                      !.checkEntireRow = cols.checkEntireRow,
                      !.matchMode = m.mode,
                      !.matchTolerance = m.tolerance,
                      !.keepLogic = option.keepLogic,
                      !.actionOption = option.actionOption]
    /\ finderTimers = <<>>

NextFinder == ClickFindDuplicates \/ FindTimeout

SpecFinder == InitFinder /\ [][NextFinder]_vars

-----------------------------------------------------------------------------
(* The row key applied to two rows of two cells, over both columns; keyInput *)
(* holds the two rows and keyCalls their keys.                               *)

RowKeyCells == {<<>>, <<"a">>, <<"A">>, Delimiter}

InitRowKey ==
    /\ InitTool
    /\ FinderIdle
    /\ keyInput \in [1..2 -> [1..2 -> RowKeyCells]]
    /\ keyMode \in {"exact", "normalized", "fuzzy"}
    /\ keyCalls = <<>>

ApplyRowKey ==
    /\ keyCalls = <<>>
    /\ keyCalls' = <<getRowComparisonKey(keyInput[1], <<0, 1>>, keyMode),
                     getRowComparisonKey(keyInput[2], <<0, 1>>, keyMode)>>
    /\ UNCHANGED <<keyInput, keyMode>>
    /\ UNCHANGED toolVars
    /\ UNCHANGED finderVars

NextRowKey == ApplyRowKey

SpecRowKey == InitRowKey /\ [][NextRowKey]_vars

-----------------------------------------------------------------------------
(* Vocabulary of the duplicate finder's properties *)

\* the deferred callback has run and set the views
FinderFinished ==
    /\ ~finder.isLoading
    /\ finderTimers = <<>>
    /\ finder.results # null

\* the data rows, numbered from 0 as the code numbers them
FinderRows == DataRows(SheetOf(finder.file, finder.selectedSheet))
FinderIndices == 0..(Len(FinderRows) - 1)

\* the mode the row keys are taken in
FinderKeyMode == IF finder.matchMode = "exact" THEN "exact" ELSE "normalized"

\* the canonical key of row idx in one column, and whether the row has an
\* empty canonical row-key: every selected cell's key is empty
FinderColumnKey(idx, col) ==
    ColumnKey(CellOrEmpty(FinderRows[idx + 1], col), FinderKeyMode)

RowKeyEmpty(idx) ==
    \A k \in 1..Len(validColumns(finder)) :
        FinderColumnKey(idx, validColumns(finder)[k]) = <<>>

\* the members of the groups, as sets of row indices
GroupMembers(groups) ==
    [e \in 1..Len(groups) |->
        {groups[e].indices[k] : k \in 1..Len(groups[e].indices)}]

\* the rows of a view below its header row
ViewRows(view) == Tail(view)

\* the rows with the indices of a set, in row order
RECURSIVE RowsOf(_, _)
RowsOf(indexSet, from) ==
    IF from >= Len(FinderRows) THEN <<>>
    ELSE (IF from \in indexSet THEN <<FinderRows[from + 1]>> ELSE <<>>)
         \o RowsOf(indexSet, from + 1)

\* the row key the tool computes for row idx
FinderRowKey(idx) ==
    getRowComparisonKey(FinderRows[idx + 1], validColumns(finder), FinderKeyMode)

\* the least and the greatest of a non-empty set of row indices
MinOf(S) == CHOOSE x \in S : \A y \in S : x <= y
MaxOf(S) == CHOOSE x \in S : \A y \in S : y <= x

-----------------------------------------------------------------------------
(* C16 *)

\* C16: a row whose canonical row-key is empty (every selected cell blank) is
\* in no group with another row and is never marked duplicate, and the groups
\* are disjoint and every row with a non-empty key is in one.
\* Fails: the code groups blank rows like any other, so the second of two
\* blank rows is marked duplicate.
C16_EmptyKeyRowsUngrouped ==
    FinderFinished =>
        LET members == GroupMembers(FinderGroups(finder))
        IN  /\ \A idx \in FinderIndices :
                  RowKeyEmpty(idx) =>
                      /\ idx \notin finder.results.duplicateIndices
                      /\ \A e \in 1..Len(members) :
                            idx \in members[e] => members[e] = {idx}
            /\ \A e, g \in 1..Len(members) :
                  e # g => members[e] \cap members[g] = {}
            /\ {idx \in FinderIndices : ~RowKeyEmpty(idx)}
                   \subseteq UNION {members[e] : e \in 1..Len(members)}

-----------------------------------------------------------------------------
(* C17 *)

\* C17: over two selected columns, two rows with the same canonical row-key
\* have the same canonical key in each of the columns.
\* Fails for the rows ["|_|", ""] and ["", "|_|"]: both join to "|_||_|".
C17_NoCrossColumnCollision ==
    (Len(keyCalls) = 2 /\ keyCalls[1] = keyCalls[2]) =>
        \A col \in 1..2 :
            ColumnKey(keyInput[1][col], keyMode) = ColumnKey(keyInput[2][col], keyMode)

-----------------------------------------------------------------------------
(* C18 *)

\* C18: in Exact and Normalized mode two rows are in the same group exactly
\* when their canonical row-keys are equal.
C18_GroupedIffSameKey ==
    (FinderFinished /\ finder.matchMode # "fuzzy") =>
        LET members == GroupMembers(FinderGroups(finder))
            keyOf == [idx \in FinderIndices |-> FinderRowKey(idx)]
        IN  \A i, j \in FinderIndices :
                (\E e \in 1..Len(members) : i \in members[e] /\ j \in members[e])
                    <=> (keyOf[i] = keyOf[j])

\* the rows [a,1],[a,2],[b,3] keyed on column 0 in Exact mode, keeping the
\* first: Unique is [a,1],[b,3] and Removed is [a,2]
C18_Witness ==
    /\ FinderFinished
    /\ finder.matchMode = "exact"
    /\ finder.keepLogic = "first"
    /\ validColumns(finder) = <<0>>
    /\ FinderRows = << << <<"a">>, <<"1">> >>, << <<"a">>, <<"2">> >>,
                       << <<"b">>, <<"3">> >> >>
    /\ ViewRows(finder.results.unique)
           = << << <<"a">>, <<"1">> >>, << <<"b">>, <<"3">> >> >>
    /\ ViewRows(finder.results.removed) = << << <<"a">>, <<"2">> >> >>

-----------------------------------------------------------------------------
(* C19 *)

\* C19: in every group, in every mode, exactly one member is not marked
\* duplicate: the one with the least row index when keeping the first and
\* with the greatest when keeping the last; no row outside the groups is
\* marked duplicate.
C19_OneKeptPerGroup ==
    FinderFinished =>
        LET members == GroupMembers(FinderGroups(finder))
            dups == finder.results.duplicateIndices
        IN  /\ \A e \in 1..Len(members) :
                  /\ members[e] # {}
                  /\ members[e] \ dups =
                        {IF finder.keepLogic = "last" THEN MaxOf(members[e])
                         ELSE MinOf(members[e])}
            /\ dups \subseteq UNION {members[e] : e \in 1..Len(members)}

\* a finished run keeping the last of a group of two
C19_Witness ==
    /\ FinderFinished
    /\ finder.keepLogic = "last"
    /\ Len(FinderRows) = 3
    /\ \E e \in 1..Len(FinderGroups(finder)) :
          FinderGroups(finder)[e].indices = <<0, 2>>
    /\ finder.results.duplicateIndices = {0}

-----------------------------------------------------------------------------
(* C20 *)

\* the kept member of every group
KeptIndices ==
    LET members == GroupMembers(FinderGroups(finder))
    IN  {IF finder.keepLogic = "last" THEN MaxOf(members[e]) ELSE MinOf(members[e]) :
            e \in {g \in 1..Len(members) : members[g] # {}}}

\* C20: after a run the Unique and Removed views split the data rows, each
\* in row order, and the statistics count them: |Unique| + |Removed| = number
\* of data rows; a row with a non-empty key is in Unique exactly when it is
\* the kept member of a group.
\* Fails in Fuzzy mode: a row can end up in no group, and is then in Unique
\* next to the kept row of the group that took its place.
C20_ViewsPartition ==
    FinderFinished =>
        /\ \E U \in SUBSET FinderIndices :
              /\ ViewRows(finder.results.unique) = RowsOf(U, 0)
              /\ ViewRows(finder.results.removed) = RowsOf(FinderIndices \ U, 0)
              /\ \A idx \in FinderIndices :
                    ~RowKeyEmpty(idx) => (idx \in U <=> idx \in KeptIndices)
        /\ Len(ViewRows(finder.results.unique))
               + Len(ViewRows(finder.results.removed)) = Len(FinderRows)
        /\ finder.stats = [original |-> Len(FinderRows),
                           unique |-> Len(ViewRows(finder.results.unique)),
                           removed |-> Len(ViewRows(finder.results.removed))]

-----------------------------------------------------------------------------
(* C21 *)
(* The two key functions applied to the same cell value and mode: keyCalls   *)
(* holds the key of the merge (VLookupTool.tsx:157-166) and then the column  *)
(* key of the duplicate finder (Slider.tsx:153-167).                         *)

ApplyBothKeys ==
    /\ keyCalls = <<>>
    /\ keyCalls' = <<getComparisonKey(keyInput, keyMode),
                     ColumnKey(keyInput, keyMode)>>
    /\ UNCHANGED <<keyInput, keyMode>>
    /\ UNCHANGED toolVars
    /\ UNCHANGED finderVars

NextBothKeys == ApplyBothKeys

SpecBothKeys == InitKey /\ [][NextBothKeys]_vars

\* C21: for every cell value and mode the column key of the duplicate finder
\* equals the key of the merge.
\* Fails: the finder returns the raw cell in Exact mode and keeps punctuation
\* and blanks in Normalized mode, e.g. "a-a" gives "aa" in the merge and
\* "a-a" in the finder.
C21_FinderKeyIsMergeKey ==
    Len(keyCalls) = 2 => keyCalls[1] = keyCalls[2]

-----------------------------------------------------------------------------
(* The other handlers of VLookupTool: handleDataSourceCountChange, lines     *)
(* 35-59, handleFile, lines 61-111, and the selection handlers, lines        *)
(* 113-119 and 383.  uploadProgress only drives the progress bars and is     *)
(* left out.                                                                  *)

\* an empty slot of a sparse JavaScript array
Hole == [hole |-> TRUE]

\* const newArr = [...current]; newArr[index] = value
ArraySet(arr, index, value) ==
    IF index < Len(arr)
    THEN [arr EXCEPT ![index + 1] = value]
    ELSE arr \o [k \in 1..(index - Len(arr)) |-> Hole] \o <<value>>

\* const newArr = [...current]; newArr.length = newCount;
\* if (newCount > current.length) newArr.fill(filler, current.length)
ArrayResize(arr, newCount, filler) ==
    IF newCount <= Len(arr) THEN SubSeq(arr, 1, newCount)
    ELSE arr \o [k \in 1..(newCount - Len(arr)) |-> filler]

\* the cap of line 36
MaxDataSources == 10

\* Math.max(1, Math.min(10, count))
ClampCount(count) ==
    LET capped == Min2(MaxDataSources, count)
    IN  IF capped < 1 THEN 1 ELSE capped

handleDataSourceCountChange(count) ==
    LET newCount == ClampCount(count)
    IN  /\ dataSourceCount' = newCount
        /\ dataSources' = ArrayResize(dataSources, newCount, null)
        /\ dataSourceSelections' =
              ArrayResize(dataSourceSelections, newCount, InitialSelectionB)
        /\ mergedData' = NoTable
        /\ stats' = null
        /\ UNCHANGED <<fileA, selectionA, isLoading, error, matchMode,
                       matchTolerance, timers, uploads>>
        /\ UNCHANGED keyVars
        /\ UNCHANGED finderVars

\* handleFile up to `await parseExcelFile`, lines 62-80
handleFileStart(type, index) ==
    /\ isLoading' = TRUE
    /\ error' = null
    /\ mergedData' = NoTable
    /\ stats' = null
    /\ IF type = "A"
       THEN /\ fileA' = null
            /\ UNCHANGED dataSources
       ELSE /\ dataSources' = ArraySet(dataSources, index, null)
            /\ UNCHANGED fileA
    /\ uploads' = uploads \cup {[type |-> type, index |-> index]}
    /\ UNCHANGED <<dataSourceCount, selectionA, dataSourceSelections,
                   matchMode, matchTolerance, timers>>
    /\ UNCHANGED keyVars
    /\ UNCHANGED finderVars

\* the rejection of parseExcelFile
ParseFailure == [failed |-> TRUE]

\* handleFile after `await parseExcelFile`, lines 81-109: data is the parsed
\* workbook, or ParseFailure when the promise was rejected
handleFileResume(upload, data) ==
    /\ upload \in uploads
    /\ IF data = ParseFailure
       THEN /\ error' = Thrown("ParseFailed", 0)
            /\ UNCHANGED <<fileA, selectionA, dataSources, dataSourceSelections>>
       ELSE IF upload.type = "A"
       THEN /\ fileA' = data
            /\ selectionA' = InitialSelectionA
            /\ UNCHANGED <<dataSources, dataSourceSelections, error>>
       ELSE /\ dataSources' = ArraySet(dataSources, upload.index, data)
            /\ dataSourceSelections' =
                  ArraySet(dataSourceSelections, upload.index, InitialSelectionB)
            /\ UNCHANGED <<fileA, selectionA, error>>
    /\ isLoading' = FALSE
    /\ uploads' = uploads \ {upload}
    /\ UNCHANGED <<dataSourceCount, mergedData, stats, matchMode,
                   matchTolerance, timers>>
    /\ UNCHANGED keyVars
    /\ UNCHANGED finderVars

\* setSelectionA, line 383
setSelectionA(sel) ==
    /\ selectionA' = sel
    /\ UNCHANGED <<fileA, dataSourceCount, dataSources, dataSourceSelections,
                   mergedData, stats, isLoading, error, matchMode,
                   matchTolerance, timers, uploads>>
    /\ UNCHANGED keyVars
    /\ UNCHANGED finderVars

handleDataSourceSelectionChange(index, newSelection) ==
    /\ dataSourceSelections' = ArraySet(dataSourceSelections, index, newSelection)
    /\ UNCHANGED <<fileA, dataSourceCount, dataSources, selectionA,
                   mergedData, stats, isLoading, error, matchMode,
                   matchTolerance, timers, uploads>>
    /\ UNCHANGED keyVars
    /\ UNCHANGED finderVars

-----------------------------------------------------------------------------
(* The user's actions on the rendered page, lines 306-403 *)

\* the options picked in the "Files:" select, of the ten it offers
CountChoices == {1, 2}

\* the files uploaded: two lookup files, one with a row that matches the
\* data source's row and one without, and one data source file
UploadChoices(type) ==
    IF type = "A"
    THEN {Workbook(PrimarySheet(<< <<"a">> >>)),
          Workbook(PrimarySheet(<< <<"A", "b">> >>))}
    ELSE {Workbook(SecondarySheet(<< <<"a">> >>))}

\* the selections made: of File A the sheet with rows or the sheet without
\* any, of a data source with and without return columns
SelectionAChoices ==
    {[sheet |-> "S", column |-> 0], [sheet |-> "E", column |-> 0]}
SelectionBChoices ==
    {[sheet |-> "S", lookupColumn |-> 0, returnColumns |-> <<1>>],
     [sheet |-> "S", lookupColumn |-> 0, returnColumns |-> <<>>]}

\* the "Files:" select, lines 326-333; onChange fires when the value changes
ChangeCount ==
    \E count \in CountChoices :
        /\ count # dataSourceCount
        /\ handleDataSourceCountChange(count)

\* the uploaders, lines 309-315 and 336-345: one for File A and one for each
\* index below dataSourceCount; a slot has one upload in progress at most
SelectFile ==
    \E type \in {"A", "B"}, index \in 0..(dataSourceCount - 1) :
        /\ type = "A" => index = 0
        /\ [type |-> type, index |-> index] \notin uploads
        /\ handleFileStart(type, index)

\* parseExcelFile settles, in any order of the uploads in progress
ParseSettles ==
    \E upload \in uploads :
        \E data \in UploadChoices(upload.type) \cup {ParseFailure} :
            handleFileResume(upload, data)

\* the column selectors, lines 383-384, rendered for the files that are loaded
ChangeSelectionA ==
    /\ fileA # null
    /\ \E sel \in SelectionAChoices :
          /\ sel # selectionA
          /\ setSelectionA(sel)

ChangeSelectionB ==
    \E index \in 0..(Len(dataSources) - 1), sel \in SelectionBChoices :
        /\ dataSources[index + 1] \notin {null, Hole}
        /\ sel # dataSourceSelections[index + 1]
        /\ handleDataSourceSelectionChange(index, sel)

\* the number of deferred merges waiting at once
MaxPending == 1

ClickMergeBounded == Len(timers) < MaxPending /\ ClickMerge

NextTool ==
    \/ ChangeCount
    \/ SelectFile
    \/ ParseSettles
    \/ ChangeSelectionA
    \/ ChangeSelectionB
    \/ ClickMergeBounded
    \/ MergeTimeout

InitToolIdle ==
    /\ InitTool
    /\ KeyIdle
    /\ FinderIdle

SpecTool == InitToolIdle /\ [][NextTool]_vars

-----------------------------------------------------------------------------
(* C26 *)
\* the event loop runs the oldest deferred callback; in SpecTool these are
\* the MergeTimeout steps
TimerFires == timers # <<>> /\ timers' = Tail(timers)

\* setTimeout callbacks are run by the event loop: a pending one is run in
\* the end
SpecToolFair == SpecTool /\ WF_timers(TimerFires)

\* a merge has been started: the loading flag is set and a callback deferred
MergeStarted == isLoading /\ timers # <<>>

\* the loading flag is cleared and a result table or an error has been set
MergeEnded == ~isLoading /\ (mergedData # NoTable \/ error # null)

\* C26: a merge that has been started runs to an end: eventually the loading
\* flag is cleared and a result table or an error has been set.  No step
\* takes a deferred merge away except its own run, which is the run of the
\* oldest one and ends with the flag cleared and a table or an error set; any
\* other step leaves the deferred merges as they are or adds one after them.
C26_MergeRunsToEnd ==
    /\ MergeStarted ~> MergeEnded
    /\ [][\/ /\ Len(timers') >= Len(timers)
             /\ SubSeq(timers', 1, Len(timers)) = timers
          \/ /\ timers # <<>>
             /\ timers' = Tail(timers)
             /\ ~isLoading'
             /\ mergedData' # NoTable \/ error' # null]_vars

\* a merge was started, a file was selected and parsed while it was deferred,
\* and the merge has run and set its table
C26_Witness ==
    /\ timers = <<>>
    /\ uploads = {}
    /\ ~isLoading
    /\ mergedData # NoTable
    /\ fileA # null
    /\ selectionA = InitialSelectionA

-----------------------------------------------------------------------------
(* C22 *)
(* handleMerge called in every configuration of loaded and missing files and *)
(* of complete and incomplete selections, with the selection handlers, so    *)
(* that a selection may be taken back after a merge has set its table.       *)

PartialSelectionA ==
    {InitialSelectionA, [sheet |-> "S", column |-> NullColumn],
     [sheet |-> "S", column |-> 0]}
PartialSelectionB ==
    {InitialSelectionB,
     [sheet |-> "S", lookupColumn |-> NullColumn, returnColumns |-> <<1>>],
     [sheet |-> "S", lookupColumn |-> 0, returnColumns |-> <<>>],
     [sheet |-> "S", lookupColumn |-> 0, returnColumns |-> <<1>>]}

InitPreCheck ==
    /\ \E n \in 1..MaxSources :
         /\ dataSourceCount = n
         /\ dataSources \in [1..n -> {null, Workbook(SecondarySheet(<< <<"a">> >>))}]
         /\ dataSourceSelections \in [1..n -> PartialSelectionB]
    /\ fileA \in {null, Workbook(PrimarySheet(<< <<"a">> >>))}
    /\ selectionA \in PartialSelectionA
    /\ matchMode = "normalized"
    /\ matchTolerance = 1
    /\ mergedData = NoTable
    /\ stats = null
    /\ isLoading = FALSE
    /\ error = null
    /\ timers = <<>>
    /\ uploads = {}
    /\ KeyIdle
    /\ FinderIdle

\* the selectors of the files that are loaded
SelectPartialA ==
    /\ fileA # null
    /\ \E sel \in PartialSelectionA :
          /\ sel.sheet # ""
          /\ sel # selectionA
          /\ setSelectionA(sel)

SelectPartialB ==
    \E index \in 0..(Len(dataSources) - 1), sel \in PartialSelectionB :
        /\ dataSources[index + 1] # null
        /\ sel.sheet # ""
        /\ sel # dataSourceSelections[index + 1]
        /\ handleDataSourceSelectionChange(index, sel)

\* handleMerge called whatever the button's disabled attribute says, with one
\* callback deferred at most
CallMerge == timers = <<>> /\ handleMerge

NextPreCheck == CallMerge \/ MergeTimeout \/ SelectPartialA \/ SelectPartialB

SpecPreCheck == InitPreCheck /\ [][NextPreCheck]_vars

\* the primary file, a data source file, or a sheet, lookup column or return
\* column selection is missing
ConfigurationMissing ==
    \/ fileA = null
    \/ selectionA.sheet = ""
    \/ selectionA.column = NullColumn
    \/ \E i \in 1..Len(dataSources) : dataSources[i] = null
    \/ \E i \in 1..Len(dataSourceSelections) :
          \/ dataSourceSelections[i].sheet = ""
          \/ dataSourceSelections[i].lookupColumn = NullColumn
          \/ dataSourceSelections[i].returnColumns = <<>>

\* the errors of the three pre-checks
PreCheckErrors ==
    {Thrown("SelectMainFile", 0), Thrown("UploadDataSources", 0),
     Thrown("ConfigureDataSources", 0)}

\* C22: a call of handleMerge while a file or a selection is missing sets an
\* error in the same step, defers no callback, and leaves the loading flag,
\* the result table and the statistics as they are.
C22_PreCheckFailsAtOnce ==
    [][(handleMerge /\ ConfigurationMissing) =>
          /\ error' \in PreCheckErrors
          /\ timers' = timers
          /\ isLoading' = isLoading
          /\ mergedData' = mergedData
          /\ stats' = stats]_vars

\* a merge has set its table, a return column selection was taken back, and
\* the next call has set the configuration error and left the table
C22_Witness ==
    /\ error = Thrown("ConfigureDataSources", 0)
    /\ mergedData # NoTable
    /\ stats # null
    /\ ~isLoading
    /\ timers = <<>>

-----------------------------------------------------------------------------
(* C29 *)
\* C29: in every reachable state the data-source list and the selection list
\* have dataSourceCount entries each, none of them an empty slot, and
\* dataSourceCount is between 1 and 10.
\* Fails: an upload for slot 1 that settles after the count was reduced to 1
\* writes newArr[1], and both lists have two entries again.
C29_ListsMatchCount ==
    /\ dataSourceCount \in 1..MaxDataSources
    /\ Len(dataSources) = dataSourceCount
    /\ Len(dataSourceSelections) = dataSourceCount
    /\ \A i \in 1..Len(dataSources) : dataSources[i] # Hole
    /\ \A i \in 1..Len(dataSourceSelections) : dataSourceSelections[i] # Hole

-----------------------------------------------------------------------------
(* C30 *)
\* the selections every merge of SpecTool is started with
MergeSelectionsB(n) ==
    [i \in 1..n |-> [sheet |-> "S", lookupColumn |-> 0, returnColumns |-> <<1>>]]

\* the table a merge of the files that are loaded now sets, for a selected
\* sheet of File A
TableOfLoadedFiles(selA) ==
    MergeResult([fileA |-> fileA, dataSources |-> dataSources,
                 selectionA |-> selA,
                 dataSourceSelections |-> MergeSelectionsB(Len(dataSources)),
                 matchMode |-> matchMode,
                 matchTolerance |-> matchTolerance]).mergedData

\* C30: whenever a result table is held, the primary file and every data
\* source file is loaded and the table is the one a merge of these files
\* gives.
\* Fails: a file selected while a merge is deferred clears the table and the
\* file, and the deferred merge then sets the table of the file it captured.
C30_TableOfLoadedFiles ==
    mergedData # NoTable =>
        /\ fileA # null
        /\ \A i \in 1..Len(dataSources) : dataSources[i] \notin {null, Hole}
        /\ mergedData = TableOfLoadedFiles([sheet |-> "S", column |-> 0])

-----------------------------------------------------------------------------
(* C27 *)
\* C27: a finished Fuzzy merge with tolerance 0 has set the table and the
\* statistics of the Normalized merge of the same files and selections.
C27_FuzzyZeroIsNormalized ==
    (MergeFinished /\ mergedData # NoTable
        /\ matchMode = "fuzzy" /\ matchTolerance = 0) =>
        LET normalized == MergeResult([Closure EXCEPT !.matchMode = "normalized"])
        IN  /\ mergedData = normalized.mergedData
            /\ stats = normalized.stats

\* a finished Fuzzy merge with tolerance 0 with a matched and an unmatched row
C27_Witness ==
    /\ MergeFinished
    /\ mergedData # NoTable
    /\ matchMode = "fuzzy"
    /\ matchTolerance = 0
    /\ stats.matched >= 1
    /\ stats.unmatched >= 1

-----------------------------------------------------------------------------
(* The duplicate finder in Fuzzy mode alone, keyed on column 0, over rows     *)
(* whose keys form a chain of near-duplicates: "", "a", "ab", "abc". The      *)
(* tolerance goes one past MaxTolerance, so that a row can lie within         *)
(* tolerance of an earlier group while a later group is nearer.               *)

FuzzyRowValues ==
    { << <<>>, <<"1">> >>,
      << <<"a">>, <<"1">> >>,
      << <<"a", "b">>, <<"1">> >>,
      << <<"a", "b", "c">>, <<"1">> >> }

FuzzyTolerances == 0..(MaxTolerance + 1)

InitFuzzy ==
    /\ InitTool
    /\ KeyIdle
    /\ \E rows \in Strings(FuzzyRowValues, MaxRows),
          tolerance \in FuzzyTolerances :
         finder = [InitialFinder EXCEPT
                      !.file = Workbook(<<FinderHeader>> \o rows),
                      !.selectedSheet = "S",
                      !.selectedColumns = <<0>>,
                      !.matchMode = "fuzzy",
                      !.matchTolerance = tolerance]
    /\ finderTimers = <<>>

SpecFuzzy == InitFuzzy /\ [][NextFinder]_vars

\* a finished Fuzzy run
FuzzyFinished == FinderFinished /\ finder.matchMode = "fuzzy"

\* the member lists of the groups, in the order the groups were created
GroupLists(groups) == [e \in 1..Len(groups) |-> groups[e].indices]

\* the representative key of a member list: the row key of its first member
RepresentativeKey(indices) == FinderRowKey(Head(indices))

\* the first member list from e on whose representative key is within
\* tolerance of key, 0 when there is none
RECURSIVE FirstWithin(_, _, _, _)
FirstWithin(lists, key, tolerance, e) ==
    IF e > Len(lists) THEN 0
    ELSE IF levenshteinDistance(key, RepresentativeKey(lists[e])) <= tolerance
         THEN e
         ELSE FirstWithin(lists, key, tolerance, e + 1)

\* the rule as stated, applied to the rows from index on
RECURSIVE FirstFitGroups(_, _, _)
FirstFitGroups(index, tolerance, lists) ==
    IF index >= Len(FinderRows) THEN lists
    ELSE LET e == FirstWithin(lists, FinderRowKey(index), tolerance, 1)
         IN  FirstFitGroups(index + 1, tolerance,
                 IF e = 0 THEN Append(lists, <<index>>)
                 ELSE [lists EXCEPT ![e] = Append(@, index)])

\* C23: in Fuzzy mode the rows are taken in order; each row joins the first
\* group, in creation order, whose representative key (the normalized row-key
\* of the group's first member) is within tolerance of the row's key, and
\* starts a new group as its representative when there is none.
C23_FirstFitGrouping ==
    FuzzyFinished =>
        GroupLists(FinderGroups(finder))
            = FirstFitGroups(0, finder.matchTolerance, <<>>)

-----------------------------------------------------------------------------
\* C28: after a Fuzzy run every member's normalized row-key is within
\* tolerance of its group's representative key, and the representative keys
\* of any two distinct groups are more than tolerance apart.
C28_GroupsAroundRepresentatives ==
    FuzzyFinished =>
        LET lists == GroupLists(FinderGroups(finder))
            tolerance == finder.matchTolerance
        IN  /\ \A e \in 1..Len(lists) : \A k \in 1..Len(lists[e]) :
                  levenshteinDistance(FinderRowKey(lists[e][k]),
                                      RepresentativeKey(lists[e])) <= tolerance
            /\ \A e, g \in 1..Len(lists) :
                  e # g => levenshteinDistance(RepresentativeKey(lists[e]),
                                               RepresentativeKey(lists[g]))
                               > tolerance

-----------------------------------------------------------------------------
(* Order dependence of the Fuzzy grouping. A chain is three rows y, x, z     *)
(* where x and z are each within tolerance of y and more than tolerance      *)
(* apart from each other.                                                    *)

Reverse(s) == [k \in 1..Len(s) |-> s[Len(s) + 1 - k]]

IsChain ==
    /\ Len(FinderRows) = 3
    /\ levenshteinDistance(FinderRowKey(0), FinderRowKey(1)) <= finder.matchTolerance
    /\ levenshteinDistance(FinderRowKey(0), FinderRowKey(2)) <= finder.matchTolerance
    /\ levenshteinDistance(FinderRowKey(1), FinderRowKey(2)) > finder.matchTolerance

\* the pairs of rows of a dataset of n rows that share a group
SharedPairs(groups, n) ==
    LET members == GroupMembers(groups)
    IN  {p \in (0..(n - 1)) \X (0..(n - 1)) :
            /\ p[1] < p[2]
            /\ \E e \in 1..Len(members) : p[1] \in members[e] /\ p[2] \in members[e]}

\* the same pairs under the numbering of the reversed dataset
Mirror(pairs, n) == {<<n - 1 - p[2], n - 1 - p[1]>> : p \in pairs}

\* the groups the tool builds from the loaded rows in reverse order
ReversedGroups ==
    FinderGroups([finder EXCEPT
        !.file = Workbook(<<FinderHeader>> \o ArrayOf(Reverse(FinderRows)))])

\* C24: the Fuzzy grouping depends on the row order: a chain and its
\* row-reversal are two datasets for which the sets of rows sharing a group
\* differ.
C24_OrderDependent ==
    (FuzzyFinished /\ IsChain) =>
        SharedPairs(ReversedGroups, 3)
            # Mirror(SharedPairs(FinderGroups(finder), 3), 3)

\* the chain "ab", "a", "abc" at tolerance 1 ends in one group; reversed,
\* "a" is more than 1 from "abc" and stays alone
C24_Witness ==
    /\ FuzzyFinished
    /\ IsChain
    /\ finder.matchTolerance = 1
    /\ FinderRowKey(0) = <<"a", "b">>
    /\ GroupLists(FinderGroups(finder)) = << <<0, 1, 2>> >>
    /\ GroupLists(ReversedGroups) = << <<0, 2>>, <<1>> >>

-----------------------------------------------------------------------------
(* The Grouped view of a finished run of the duplicate finder                *)

IsMultiMember(indices) == Len(indices) >= 2

\* the member lists with two or more members, in group-creation order
MultiMemberLists == SelectSeq(GroupLists(FinderGroups(finder)), IsMultiMember)

\* the number of rows of the lists before list g
RECURSIVE RowsBefore(_, _)
RowsBefore(lists, g) ==
    IF g <= 1 THEN 0 ELSE Len(lists[g - 1]) + RowsBefore(lists, g - 1)

====
